---- MODULE Spec2Model ----
(***************************************************************************)
(* The gossip adapters of provider/mesh/peer.go: NotificationInfos and     *)
(* Silences, each bridging a last-write-wins replicated set to the mesh    *)
(* transport.  The replicated sets themselves (notificationState,          *)
(* silenceState: Merge, mergeDelta, mergeComplete, the decoders) are not   *)
(* part of peer.go; they are modelled from section 4.1 of the design.      *)
(***************************************************************************)
EXTENDS Integers, Sequences, FiniteSets, TLC

\* Largest clock reading / timestamp of the model.
MaxTime == 1

Times == 0..MaxTime

(***************************************************************************)
(* Data                                                                    *)
(***************************************************************************)
Fingerprints == {1, 2}
Receivers == {"team-a"}

\* fmt.Sprintf("%x:%s", fp, receiver): the hex digits never hold a ':', so
\* the string determines the pair; the pair stands for the string.
NKey(fp, recv) == <<fp, recv>>

NKeys == {NKey(fp, r) : fp \in Fingerprints, r \in Receivers}

\* notificationEntry{Resolved, Timestamp}
NEntries == [Resolved : BOOLEAN, Timestamp : Times]

\* uuid.Nil and the identifiers uuid.NewV4 can return.
NilID == 0
IDs == {1, 2}

\* The field values of the silences of the model.  Every matcher set of
\* MatcherSets compiles; BadMatcher is a regular expression that does not.
MatcherSets == {"alertname=Foo"}
BadMatcher == "alertname=~("
Comments == {"c"}
Creators == {"u"}

\* A silence handed in has ended by the first clock reading or ends after the
\* last one.
EndTimes == {0, MaxTime + 1}

\* types.Silence
Silence(id, m, s, e, u, by, c) ==
  [ID |-> id, Matchers |-> m, StartsAt |-> s, EndsAt |-> e,
   UpdatedAt |-> u, CreatedBy |-> by, Comment |-> c]

SilenceValues(ids) ==
  {Silence(id, m, 0, e, u, by, c) :
     id \in ids, m \in MatcherSets, e \in EndTimes, u \in Times,
     by \in Creators, c \in Comments}

\* The label sets Mutes is asked about: lset.Fingerprint() tells them apart.
LabelSets ==
  {[alertname |-> "Foo", severity |-> "critical"],
   [alertname |-> "Bar", severity |-> "none"]}

LFingerprint(lset) == IF lset.alertname = "Foo" THEN 1 ELSE 2

\* A marker that has nothing recorded.
NoMarks == [fp \in {LFingerprint(l) : l \in LabelSets} |-> {}]

\* The empty mapping (a map with no keys).
Empty == [k \in {} |-> 0]

\* Every mapping from a subset of keys to values.
Maps(keys, vals) == UNION {[D -> vals] : D \in SUBSET keys}

\* The states of a notificationState.set.
NSets == Maps(NKeys, NEntries)

\* The states of a silenceState.set: the entry under id carries that id.
SSets == {m \in Maps(IDs, SilenceValues(IDs)) : \A id \in DOMAIN m : m[id].ID = id}

(***************************************************************************)
(* Wire format: an order-independent collection of (key, value) records,   *)
(* or bytes that do not decode.                                            *)
(***************************************************************************)
Encode(m) == [valid |-> TRUE, recs |-> {<<k, m[k]>> : k \in DOMAIN m}]

Malformed == [valid |-> FALSE, recs |-> {}]

\* decodeNotificationSet / decodeSilenceSet: (set, err)
Decode(b) ==
  IF b.valid
  THEN [err |-> "nil",
        set |-> [k \in {r[1] : r \in b.recs} |->
                   (CHOOSE r \in b.recs : r[1] = k)[2]]]
  ELSE [err |-> "decode", set |-> Empty]

decodeNotificationSet(b) == Decode(b)

decodeSilenceSet(b) == Decode(b)

\* The sets of at most one key.
Singles(sets) == {m \in sets : Cardinality(DOMAIN m) <= 1}

\* The bytes handed to OnGossip: any state, or bytes that do not decode.
NPayloads == {Encode(m) : m \in NSets} \cup {Malformed}

SPayloads == {Encode(m) : m \in SSets} \cup {Malformed}

\* The bytes handed to OnGossipBroadcast and OnGossipUnicast: fragments of
\* at most one key, or bytes that do not decode.
NFragments == {Encode(m) : m \in Singles(NSets)} \cup {Malformed}

SFragments == {Encode(m) : m \in Singles(SSets)} \cup {Malformed}

(***************************************************************************)
(* The replicated sets: last write wins by timestamp, ties keep the        *)
(* receiver's value.                                                       *)
(***************************************************************************)
\* A comparison that also lets an equal timestamp through.
NNewerOrEqual(prev, v) == prev.Timestamp <= v.Timestamp

\* prev.Timestamp.Before(v.Timestamp)
NNewer(prev, v) == prev.Timestamp < v.Timestamp

\* prev.UpdatedAt.Before(v.UpdatedAt)
SNewer(prev, v) == prev.UpdatedAt < v.UpdatedAt

\* The keys of update u that the receiver st accepts: the key is new to it,
\* or its entry is older.
NAccepted(st, u) ==
  {k \in DOMAIN u : k \notin DOMAIN st \/ NNewer(st[k], u[k])}

SAccepted(st, u) ==
  {k \in DOMAIN u : k \notin DOMAIN st \/ SNewer(st[k], u[k])}

\* The receiver after taking the accepted keys of u.
Applied(st, u, acc) ==
  [k \in DOMAIN st \cup acc |-> IF k \in acc THEN u[k] ELSE st[k]]

\* The keys whose stored value differs between two states of a set.
Changed(old, new) ==
  {k \in DOMAIN new : k \notin DOMAIN old \/ old[k] # new[k]}

\* A merge that returns after the first key it accepts.
NMergeFirstOnly(st, u) ==
  LET acc == NAccepted(st, u)
  IN  IF acc = {} THEN st
      ELSE Applied(st, u, {CHOOSE k \in acc : \A j \in acc : k[1] <= j[1]})

\* notificationState.Merge(other)
NMerge(st, u) == Applied(st, u, NAccepted(st, u))

\* A mergeDelta that returns the update it was given instead of the delta.
NMergeDeltaWhole(st, u) ==
  [st |-> Applied(st, u, NAccepted(st, u)), delta |-> u]

\* notificationState.mergeDelta(set): the new state and the delta
NMergeDelta(st, u) ==
  LET acc == NAccepted(st, u)
  IN  [st |-> Applied(st, u, acc), delta |-> [k \in acc |-> u[k]]]

\* A mergeComplete that takes every entry of the update, older ones too.
NMergeCompleteOverwrites(st, u) ==
  [k \in DOMAIN st \cup DOMAIN u |-> IF k \in DOMAIN u THEN u[k] ELSE st[k]]

\* notificationState.mergeComplete(set)
NMergeComplete(st, u) == Applied(st, u, NAccepted(st, u))

\* silenceState.Merge(other)
SMerge(st, u) == Applied(st, u, SAccepted(st, u))

\* silenceState.mergeDelta(set)
SMergeDelta(st, u) ==
  LET acc == SAccepted(st, u)
  IN  [st |-> Applied(st, u, acc), delta |-> [k \in acc |-> u[k]]]

\* silenceState.mergeComplete(set)
SMergeComplete(st, u) == Applied(st, u, SAccepted(st, u))

(***************************************************************************)
(* State                                                                   *)
(***************************************************************************)
VARIABLES
  obj,    \* which object the process constructed: "none", "NotificationInfos", "Silences"
  send,   \* whether Register has stored the transport handle
  nst,    \* NotificationInfos.st.set
  sst,    \* Silences.st.set
  now,    \* the reading time.Now() returns
  last,   \* the last completed call: its name and what it returned
  out,    \* the updates the last call handed to send.GossipBroadcast, in order
  alg,    \* the merge laws' run: one start state, two updates, two replicas
  clu,    \* a cluster of NotificationInfos peers and the fragments in flight
  mk,     \* the types.Marker: per label-set fingerprint, the silencing ids
  held,   \* the ids whose stored *types.Silence a caller holds a pointer to
  thr     \* the goroutines running calls step by step, and the store's mtx

vars == <<obj, send, nst, sst, now, last, out, alg, clu, mk, held, thr>>

\* A mesh.GossipData result: nil, or a state holding a set.
NoData == [nil |-> TRUE, set |-> Empty]

Data(d) == [nil |-> FALSE, set |-> d]

\* What a call leaves behind: its name, the error and data it returned, the
\* id it was about, and whether the input it was handed was well-formed;
\* for Silences.Set whether the silence came without an ID (anon); for a
\* call whose arguments or plain result matter later, those (arg, res).
Returned(op, err, ret, id, valid) ==
  [op |-> op, err |-> err, ret |-> ret, id |-> id, valid |-> valid,
   anon |-> FALSE, arg |-> <<>>, res |-> <<>>]

\* A step of the call named op: only a call leaves the object, its
\* transport handle and the clock alone.
CallStep(op) == last'.op = op /\ obj' = obj /\ send' = send /\ now' = now

(***************************************************************************)
(* NotificationInfos                                                       *)
(***************************************************************************)
\* An OnGossip without the len(d.set) == 0 check.
NIOnGossipNoEmptyCheck(st, b) ==
  LET dec == decodeNotificationSet(b)
  IN  IF dec.err # "nil"
      THEN [st |-> st, ret |-> NoData, err |-> dec.err]
      ELSE LET d == NMergeDelta(st, dec.set)
           IN  [st |-> d.st, ret |-> Data(d.delta), err |-> "nil"]

\* OnGossip(b): (new state, returned data, error)
NIOnGossip(st, b) ==
  LET dec == decodeNotificationSet(b)
  IN  IF dec.err # "nil"
      THEN [st |-> st, ret |-> NoData, err |-> dec.err]
      ELSE LET d == NMergeDelta(st, dec.set)
           IN  IF Cardinality(DOMAIN d.delta) = 0
               THEN [st |-> d.st, ret |-> NoData, err |-> "nil"]
               ELSE [st |-> d.st, ret |-> Data(d.delta), err |-> "nil"]

\* OnGossipBroadcast(_, b)
NIOnGossipBroadcast(st, b) ==
  LET dec == decodeNotificationSet(b)
  IN  IF dec.err # "nil"
      THEN [st |-> st, ret |-> NoData, err |-> dec.err]
      ELSE LET d == NMergeDelta(st, dec.set)
           IN  [st |-> d.st, ret |-> Data(d.delta), err |-> "nil"]

\* OnGossipUnicast(_, b)
NIOnGossipUnicast(st, b) ==
  LET dec == decodeNotificationSet(b)
  IN  IF dec.err # "nil"
      THEN [st |-> st, ret |-> NoData, err |-> dec.err]
      ELSE [st |-> NMergeComplete(st, dec.set), ret |-> NoData, err |-> "nil"]

\* types.NotifyInfo{Alert, Receiver, Resolved, Timestamp}
NotifyInfos ==
  [Alert : Fingerprints, Receiver : Receivers, Resolved : BOOLEAN, Timestamp : Times]

\* A batch that holds its first entry only.
NIBatchFirstOnly(ns) ==
  IF ns = <<>> THEN Empty
  ELSE [j \in {NKey(ns[1].Alert, ns[1].Receiver)} |->
          [Resolved |-> ns[1].Resolved, Timestamp |-> ns[1].Timestamp]]

\* The map Set builds from its arguments: a later argument overwrites an
\* earlier one with the same key.
RECURSIVE NIBatch(_)
NIBatch(ns) ==
  IF ns = <<>> THEN Empty
  ELSE LET n    == ns[Len(ns)]
           k    == NKey(n.Alert, n.Receiver)
           rest == NIBatch(SubSeq(ns, 1, Len(ns) - 1))
       IN  [j \in DOMAIN rest \cup {k} |->
              IF j = k THEN [Resolved |-> n.Resolved, Timestamp |-> n.Timestamp]
              ELSE rest[j]]

\* Set(ns...): (new state, broadcasts, error)
NISet(st, ns) ==
  LET update == NIBatch(ns)
  IN  [st |-> NMerge(st, update), out |-> <<update>>, err |-> "nil"]

\* The nil *types.NotifyInfo Get appends for a key that is not stored.
NilInfo == [nil |-> TRUE]

\* A Get that leaves out the fingerprints it does not find.
RECURSIVE NIGetSkipsAbsent(_, _, _, _)
NIGetSkipsAbsent(st, dest, fps, res) ==
  IF fps = <<>> THEN res
  ELSE LET fp == Head(fps)
           k  == NKey(fp, dest)
       IN  NIGetSkipsAbsent(st, dest, Tail(fps),
             IF k \in DOMAIN st
             THEN Append(res, [nil |-> FALSE, Alert |-> fp, Receiver |-> dest,
                               Resolved |-> st[k].Resolved,
                               Timestamp |-> st[k].Timestamp])
             ELSE res)

\* Get(dest, fps...): the loop over fps, appending to res
RECURSIVE NIGet(_, _, _, _)
NIGet(st, dest, fps, res) ==
  IF fps = <<>> THEN res
  ELSE LET fp == Head(fps)
           k  == NKey(fp, dest)
       IN  NIGet(st, dest, Tail(fps),
             IF k \in DOMAIN st
             THEN Append(res, [nil |-> FALSE, Alert |-> fp, Receiver |-> dest,
                               Resolved |-> st[k].Resolved,
                               Timestamp |-> st[k].Timestamp])
             ELSE Append(res, NilInfo))

(***************************************************************************)
(* Silences                                                                *)
(***************************************************************************)
\* types.Silence.Init: compiles every matcher; a matcher that does not
\* compile is the validation error.
SilenceInit(sil) == IF sil.Matchers = BadMatcher THEN "init" ELSE "nil"

\* Matchers.Match(lset): the one matcher set that compiles wants
\* alertname="Foo"; a matcher that does not compile matches nothing.
Matches(m, lset) == m = "alertname=Foo" /\ lset.alertname = "Foo"

\* The time window of sil is active at t: it has started and has not ended.
Active(sil, t) == sil.StartsAt <= t /\ ~(sil.EndsAt < t)

\* types.Silence.Mutes(lset) at time t
SilenceMutes(sil, lset, t) == Active(sil, t) /\ Matches(sil.Matchers, lset)

\* The ids of the stored silences that mute lset at t.
Muting(st, lset, t) == {id \in DOMAIN st : SilenceMutes(st[id], lset, t)}

\* Marker.SetSilenced(fp, ids...): the ids replace what was recorded for fp.
SetSilenced(marks, fp, ids) == [marks EXCEPT ![fp] = ids]

\* A Mutes that returns false without telling the marker.
SilMutesKeepsMark(st, marks, lset, first, t) ==
  IF Muting(st, lset, t) # {}
  THEN [mk |-> SetSilenced(marks, LFingerprint(lset), {st[first].ID}), res |-> TRUE]
  ELSE [mk |-> marks, res |-> FALSE]

\* Mutes(lset) at time t, when the range over the map comes to the muting
\* silence under first before any other muting one: (marker, result)
SilMutes(st, marks, lset, first, t) ==
  IF Muting(st, lset, t) # {}
  THEN [mk |-> SetSilenced(marks, LFingerprint(lset), {st[first].ID}), res |-> TRUE]
  ELSE [mk |-> SetSilenced(marks, LFingerprint(lset), {}), res |-> FALSE]

\* The silences a caller passes to Set: with or without an ID, with content
\* that is valid or not.
SilenceArgs ==
  {[sil EXCEPT !.Matchers = m] :
     sil \in SilenceValues(IDs \cup {NilID}), m \in MatcherSets \cup {BadMatcher}}

\* Set(sil) when uuid.NewV4 returns fresh: (new state, broadcasts, id, error)
SilSet(st, sil, fresh, t) ==
  LET id     == IF sil.ID = NilID THEN fresh ELSE sil.ID
      stored == [sil EXCEPT !.ID = id, !.UpdatedAt = t]
      update == [k \in {id} |-> stored]
  IN  [st |-> SMerge(st, update), out |-> <<update>>, id |-> id, err |-> "nil"]

\* A Del that takes the silence out of the store.
SilDelRemoves(st, id, t) ==
  IF id \notin DOMAIN st
  THEN [st |-> st, out |-> <<>>, err |-> "not found"]
  ELSE [st |-> [k \in DOMAIN st \ {id} |-> st[k]], out |-> <<>>, err |-> "nil"]

\* A Del without the sil.EndsAt.Before(now) check.
SilDelNoEndedCheck(st, id, t) ==
  IF id \notin DOMAIN st
  THEN [st |-> st, out |-> <<>>, err |-> "not found"]
  ELSE LET newSil == [st[id] EXCEPT !.UpdatedAt = t, !.EndsAt = t]
           update == [k \in {newSil.ID} |-> newSil]
       IN  IF SilenceInit(newSil) # "nil"
           THEN [st |-> st, out |-> <<>>, err |-> "silence init"]
           ELSE [st |-> SMerge(st, update), out |-> <<update>>, err |-> "nil"]

\* Del(id) at time t: (new state, broadcasts, error)
SilDel(st, id, t) ==
  IF id \notin DOMAIN st
  THEN [st |-> st, out |-> <<>>, err |-> "not found"]
  ELSE LET sil == st[id]
       IN  IF sil.EndsAt < t
           THEN [st |-> st, out |-> <<>>, err |-> "silence already ended"]
           ELSE LET newSil == [sil EXCEPT !.UpdatedAt = t, !.EndsAt = t]
                    update == [k \in {newSil.ID} |-> newSil]
                IN  IF SilenceInit(newSil) # "nil"
                    THEN [st |-> st, out |-> <<>>, err |-> "silence init"]
                    ELSE [st |-> SMerge(st, update), out |-> <<update>>,
                          err |-> "nil"]

\* OnGossip(b)
SilOnGossip(st, b) ==
  LET dec == decodeSilenceSet(b)
  IN  IF dec.err # "nil"
      THEN [st |-> st, ret |-> NoData, err |-> dec.err]
      ELSE LET d == SMergeDelta(st, dec.set)
           IN  IF Cardinality(DOMAIN d.delta) = 0
               THEN [st |-> d.st, ret |-> NoData, err |-> "nil"]
               ELSE [st |-> d.st, ret |-> Data(d.delta), err |-> "nil"]

\* OnGossipBroadcast(_, b)
SilOnGossipBroadcast(st, b) ==
  LET dec == decodeSilenceSet(b)
  IN  IF dec.err # "nil"
      THEN [st |-> st, ret |-> NoData, err |-> dec.err]
      ELSE LET d == SMergeDelta(st, dec.set)
           IN  [st |-> d.st, ret |-> Data(d.delta), err |-> "nil"]

\* An OnGossipUnicast that drops the decoder's error.
SilOnGossipUnicastDropsErr(st, b) ==
  [st |-> SMergeComplete(st, decodeSilenceSet(b).set), ret |-> NoData,
   err |-> "nil"]

\* OnGossipUnicast(_, b)
SilOnGossipUnicast(st, b) ==
  LET dec == decodeSilenceSet(b)
  IN  IF dec.err # "nil"
      THEN [st |-> st, ret |-> NoData, err |-> dec.err]
      ELSE [st |-> SMergeComplete(st, dec.set), ret |-> NoData, err |-> "nil"]

(***************************************************************************)
(* The calls a process makes on the object it constructed.  The two types  *)
(* share no field, so a behaviour follows one object.                      *)
(***************************************************************************)
\* The argument lists of NotificationInfos.Set: none, one or two entries;
\* two entries for one key come in either order, two entries for two keys
\* in the order of their fingerprints.
NIBatches ==
  {<<>>} \cup {<<a>> : a \in NotifyInfos}
         \cup {p \in NotifyInfos \X NotifyInfos : p[1].Alert <= p[2].Alert}

\* Longest fingerprint list handed to NotificationInfos.Get.
MaxFps == 2

\* The arguments of NotificationInfos.Get: a receiver that has entries or
\* one that has none, and a list of fingerprints, repeats included.
GetDests == Receivers \cup {"team-b"}

FpLists == UNION {[1..n -> Fingerprints] : n \in 0..MaxFps}

\* No merge-law run is in progress.
AlgOff == [pc |-> -1]

\* No goroutines are being followed.
ThrOff == [on |-> FALSE]

\* Nothing is constructed yet.
NoObject ==
  /\ obj = "none"
  /\ send = FALSE
  /\ nst = Empty
  /\ sst = Empty
  /\ now = 0
  /\ last = Returned("none", "nil", NoData, NilID, TRUE)
  /\ out = <<>>
  /\ mk = NoMarks
  /\ held = {}
  /\ thr = ThrOff

\* No cluster is running.
CluOff == [writes |-> -1]

Init ==
  /\ NoObject
  /\ alg = AlgOff
  /\ clu = CluOff

NewNotificationInfos ==
  /\ obj = "none"
  /\ obj' = "NotificationInfos"
  /\ nst' = Empty
  /\ UNCHANGED <<send, sst, now, last, out, alg, clu, mk, held, thr>>

NewSilences ==
  /\ obj = "none"
  /\ obj' = "Silences"
  /\ sst' = Empty
  /\ UNCHANGED <<send, nst, now, last, out, alg, clu, mk, held, thr>>

Register ==
  /\ obj # "none"
  /\ ~send
  /\ send' = TRUE
  /\ UNCHANGED <<obj, nst, sst, now, last, out, alg, clu, mk, held, thr>>

\* time.Now() moves on; only Silences reads the clock.
Tick ==
  /\ obj = "Silences"
  /\ now < MaxTime
  /\ now' = now + 1
  /\ UNCHANGED <<obj, send, nst, sst, last, out, alg, clu, mk, held, thr>>

CallNIOnGossip(b) ==
  /\ obj = "NotificationInfos"
  /\ LET r == NIOnGossip(nst, b)
     IN  /\ nst' = r.st
         /\ last' = Returned("NotificationInfos.OnGossip", r.err, r.ret, NilID, b.valid)
  /\ out' = <<>>
  /\ UNCHANGED <<obj, send, sst, now, alg, clu, mk, held, thr>>

CallNIOnGossipBroadcast(b) ==
  /\ obj = "NotificationInfos"
  /\ LET r == NIOnGossipBroadcast(nst, b)
     IN  /\ nst' = r.st
         /\ last' = Returned("NotificationInfos.OnGossipBroadcast", r.err, r.ret, NilID, b.valid)
  /\ out' = <<>>
  /\ UNCHANGED <<obj, send, sst, now, alg, clu, mk, held, thr>>

CallNIOnGossipUnicast(b) ==
  /\ obj = "NotificationInfos"
  /\ LET r == NIOnGossipUnicast(nst, b)
     IN  /\ nst' = r.st
         /\ last' = Returned("NotificationInfos.OnGossipUnicast", r.err, r.ret, NilID, b.valid)
  /\ out' = <<>>
  /\ UNCHANGED <<obj, send, sst, now, alg, clu, mk, held, thr>>

\* Set dereferences ni.send: it is called once Register has run.
CallNISet(ns) ==
  /\ obj = "NotificationInfos"
  /\ send
  /\ LET r == NISet(nst, ns)
     IN  /\ nst' = r.st
         /\ out' = r.out
         /\ last' = Returned("NotificationInfos.Set", r.err, NoData, NilID, TRUE)
  /\ UNCHANGED <<obj, send, sst, now, alg, clu, mk, held, thr>>

\* Get reads ni.st.set and builds its result; it has no other effect.
CallNIGet(dest, fps) ==
  /\ obj = "NotificationInfos"
  /\ last' = [Returned("NotificationInfos.Get", "nil", NoData, NilID, TRUE)
                 EXCEPT !.arg = <<dest, fps>>,
                        !.res = NIGet(nst, dest, fps, <<>>)]
  /\ out' = <<>>
  /\ UNCHANGED <<obj, send, nst, sst, now, alg, clu, mk, held, thr>>

\* uuid.NewV4 draws a random identifier; the model takes it to return one
\* that no stored silence carries.
CallSilSetBody(sil, fresh) ==
  /\ obj = "Silences"
  /\ send
  /\ IF sil.ID = NilID THEN fresh \notin DOMAIN sst ELSE fresh = sil.ID
  /\ LET r == SilSet(sst, sil, fresh, now)
     IN  /\ sst' = r.st
         /\ out' = r.out
         /\ last' = [Returned("Silences.Set", r.err, NoData, r.id,
                               SilenceInit(sil) = "nil")
                        EXCEPT !.anon = (sil.ID = NilID)]
  /\ UNCHANGED <<obj, send, nst, now, alg, clu, mk, thr>>

CallSilSet(sil, fresh) == CallSilSetBody(sil, fresh) /\ UNCHANGED held

\* The order of a range over a Go map is not fixed: any muting silence may
\* come first.
CallSilMutes(lset, first) ==
  /\ obj = "Silences"
  /\ IF Muting(sst, lset, now) = {} THEN first = NilID
     ELSE first \in Muting(sst, lset, now)
  /\ LET r == SilMutes(sst, mk, lset, first, now)
     IN  /\ mk' = r.mk
         /\ last' = [Returned("Silences.Mutes", "nil", NoData, NilID, TRUE)
                        EXCEPT !.arg = <<lset>>, !.res = r.res]
  /\ out' = <<>>
  /\ UNCHANGED <<obj, send, nst, sst, now, alg, clu, held, thr>>

CallSilDelBody(id) ==
  /\ obj = "Silences"
  /\ send
  /\ LET r == SilDel(sst, id, now)
     IN  /\ sst' = r.st
         /\ out' = r.out
         /\ last' = Returned("Silences.Del", r.err, NoData, id, TRUE)
  /\ UNCHANGED <<obj, send, nst, now, alg, clu, mk, thr>>

CallSilDel(id) == CallSilDelBody(id) /\ UNCHANGED held

CallSilOnGossipBody(b) ==
  /\ obj = "Silences"
  /\ LET r == SilOnGossip(sst, b)
     IN  /\ sst' = r.st
         /\ last' = Returned("Silences.OnGossip", r.err, r.ret, NilID, b.valid)
  /\ out' = <<>>
  /\ UNCHANGED <<obj, send, nst, now, alg, clu, mk, thr>>

CallSilOnGossip(b) == CallSilOnGossipBody(b) /\ UNCHANGED held

CallSilOnGossipBroadcast(b) ==
  /\ obj = "Silences"
  /\ LET r == SilOnGossipBroadcast(sst, b)
     IN  /\ sst' = r.st
         /\ last' = Returned("Silences.OnGossipBroadcast", r.err, r.ret, NilID, b.valid)
  /\ out' = <<>>
  /\ UNCHANGED <<obj, send, nst, now, alg, clu, mk, held, thr>>

CallSilOnGossipUnicast(b) ==
  /\ obj = "Silences"
  /\ LET r == SilOnGossipUnicast(sst, b)
     IN  /\ sst' = r.st
         /\ last' = Returned("Silences.OnGossipUnicast", r.err, r.ret, NilID, b.valid)
  /\ out' = <<>>
  /\ UNCHANGED <<obj, send, nst, now, alg, clu, mk, held, thr>>

Next ==
  \/ NewNotificationInfos
  \/ NewSilences
  \/ Register
  \/ Tick
  \/ \E b \in NPayloads : CallNIOnGossip(b)
  \/ \E b \in NFragments : CallNIOnGossipBroadcast(b)
  \/ \E b \in NFragments : CallNIOnGossipUnicast(b)
  \/ \E ns \in NIBatches : CallNISet(ns)
  \/ \E dest \in GetDests, fps \in FpLists : CallNIGet(dest, fps)
  \/ \E sil \in SilenceArgs, fresh \in IDs : CallSilSet(sil, fresh)
  \/ \E id \in IDs : CallSilDel(id)
  \/ \E lset \in LabelSets, first \in IDs \cup {NilID} : CallSilMutes(lset, first)
  \/ \E b \in SPayloads : CallSilOnGossip(b)
  \/ \E b \in SFragments : CallSilOnGossipBroadcast(b)
  \/ \E b \in SFragments : CallSilOnGossipUnicast(b)

Spec == Init /\ [][Next]_vars

(***************************************************************************)
(* The merge laws.  A run draws a store kind, a start state S of at most   *)
(* one key, an update U and an update V of at most one key; replica A      *)
(* merges U, U once more, then V; replica B merges V, then U.  Each merge  *)
(* goes through Merge (as Set and Del do) or through one of the three      *)
(* inbound callbacks.                                                      *)
(***************************************************************************)
\* The timestamp a store of this kind compares.
Stamp(kind, e) == IF kind = "NotificationInfos" THEN e.Timestamp ELSE e.UpdatedAt

\* The replica that does merge number pc + 1, and the update it merges.
AlgReplica(pc) == IF pc < 3 THEN "A" ELSE "B"

AlgUpdate(a) == IF a.pc \in {0, 1, 4} THEN a.U ELSE a.V

AlgCur(a) == IF AlgReplica(a.pc) = "A" THEN a.A ELSE a.B

\* The replica that did the last merge, as it is after it.
AlgPost(a) == IF AlgReplica(a.pc - 1) = "A" THEN a.A ELSE a.B

\* One merge of the run, done through the entry point via, which returned
\* delta and err.
AlgStep(via, post, delta, err) ==
  alg' = [alg EXCEPT !.pc = @ + 1,
                     !.via = via,
                     !.err = err,
                     !.A = IF AlgReplica(alg.pc) = "A" THEN post ELSE @,
                     !.B = IF AlgReplica(alg.pc) = "B" THEN post ELSE @,
                     !.pre = AlgCur(alg),
                     !.upd = AlgUpdate(alg),
                     !.delta = delta]

AlgStart(kind, s, u, v) ==
  [kind |-> kind, pc |-> 0, S |-> s, U |-> u, V |-> v, A |-> s, B |-> s,
   pre |-> s, upd |-> Empty, delta |-> NoData, via |-> "none", err |-> "nil"]

InitMerge ==
  /\ NoObject
  /\ \/ alg \in {AlgStart("NotificationInfos", s, u, v) :
                   s \in Singles(NSets), u \in NSets, v \in Singles(NSets)}
     \/ alg \in {AlgStart("Silences", s, u, v) :
                   s \in Singles(SSets), u \in SSets, v \in Singles(SSets)}
  /\ clu = CluOff

\* st.Merge(update), the local application of Set and Del
AlgMerge ==
  /\ alg.pc \in 0..4
  /\ AlgStep("Merge",
             IF alg.kind = "NotificationInfos"
             THEN NMerge(AlgCur(alg), AlgUpdate(alg))
             ELSE SMerge(AlgCur(alg), AlgUpdate(alg)),
             NoData, "nil")
  /\ UNCHANGED <<obj, send, nst, sst, now, last, out, clu, mk, held, thr>>

AlgOnGossip ==
  /\ alg.pc \in 0..4
  /\ LET r == IF alg.kind = "NotificationInfos"
              THEN NIOnGossip(AlgCur(alg), Encode(AlgUpdate(alg)))
              ELSE SilOnGossip(AlgCur(alg), Encode(AlgUpdate(alg)))
     IN  AlgStep("OnGossip", r.st, r.ret, r.err)
  /\ UNCHANGED <<obj, send, nst, sst, now, last, out, clu, mk, held, thr>>

AlgOnGossipBroadcast ==
  /\ alg.pc \in 0..4
  /\ LET r == IF alg.kind = "NotificationInfos"
              THEN NIOnGossipBroadcast(AlgCur(alg), Encode(AlgUpdate(alg)))
              ELSE SilOnGossipBroadcast(AlgCur(alg), Encode(AlgUpdate(alg)))
     IN  AlgStep("OnGossipBroadcast", r.st, r.ret, r.err)
  /\ UNCHANGED <<obj, send, nst, sst, now, last, out, clu, mk, held, thr>>

AlgOnGossipUnicast ==
  /\ alg.pc \in 0..4
  /\ LET r == IF alg.kind = "NotificationInfos"
              THEN NIOnGossipUnicast(AlgCur(alg), Encode(AlgUpdate(alg)))
              ELSE SilOnGossipUnicast(AlgCur(alg), Encode(AlgUpdate(alg)))
     IN  AlgStep("OnGossipUnicast", r.st, r.ret, r.err)
  /\ UNCHANGED <<obj, send, nst, sst, now, last, out, clu, mk, held, thr>>

NextMerge ==
  AlgMerge \/ AlgOnGossip \/ AlgOnGossipBroadcast \/ AlgOnGossipUnicast

SpecMerge == InitMerge /\ [][NextMerge]_vars

(***************************************************************************)
(* A cluster: every peer holds a NotificationInfos of its own.  A local    *)
(* Set merges and broadcasts; the transport hands the fragment to each     *)
(* other peer's OnGossipBroadcast, in any order and as often as it likes.  *)
(* The peers are fully connected, so the data a peer returns has no next   *)
(* hop.  Anti-entropy hands one peer's Gossip() to another's OnGossip.     *)
(***************************************************************************)
Peers == {1, 2}

\* Local writes in one run of the cluster.
MaxWrites == 2

\* The cluster's writes are about one alert and one receiver.
ClusterWrites ==
  {n \in NotifyInfos : n.Alert = 1 /\ n.Receiver = "team-a"}

\* NotificationInfos.Gossip(): st.copy()
NIGossip(st) == st

InitCluster ==
  /\ NoObject
  /\ alg = AlgOff
  /\ clu = [st |-> [p \in Peers |-> Empty], wire |-> {}, writes |-> 0]

\* Peer p: Set(n); the transport takes the update for every other peer.
ClusterSet(p, n) ==
  /\ clu.writes < MaxWrites
  /\ LET r == NISet(clu.st[p], <<n>>)
     IN  clu' = [st |-> [clu.st EXCEPT ![p] = r.st],
                 wire |-> clu.wire \cup
                            {[to |-> q, from |-> p, frag |-> Encode(r.out[1])] :
                               q \in Peers \ {p}},
                 writes |-> clu.writes + 1]
  /\ UNCHANGED <<obj, send, nst, sst, now, last, out, alg, mk, held, thr>>

\* The transport delivers m; keep says whether it will deliver m again.
ClusterDeliver(m, keep) ==
  /\ m \in clu.wire
  /\ LET r == NIOnGossipBroadcast(clu.st[m.to], m.frag)
     IN  clu' = [clu EXCEPT !.st[m.to] = r.st,
                            !.wire = IF keep THEN @ ELSE @ \ {m}]
  /\ UNCHANGED <<obj, send, nst, sst, now, last, out, alg, mk, held, thr>>

\* Anti-entropy: p's full state goes to q's OnGossip.
ClusterGossip(p, q) ==
  /\ p # q
  /\ LET r == NIOnGossip(clu.st[q], Encode(NIGossip(clu.st[p])))
     IN  clu' = [clu EXCEPT !.st[q] = r.st]
  /\ UNCHANGED <<obj, send, nst, sst, now, last, out, alg, mk, held, thr>>

NextCluster ==
  \/ \E p \in Peers, n \in ClusterWrites : ClusterSet(p, n)
  \/ \E m \in clu.wire, keep \in BOOLEAN : ClusterDeliver(m, keep)
  \/ \E p \in Peers, q \in Peers : ClusterGossip(p, q)

SpecCluster == InitCluster /\ [][NextCluster]_vars

(***************************************************************************)
(* Pointers.  silenceState.set maps an id to a *types.Silence.  Get and    *)
(* All return the stored pointers themselves and Set puts the caller's     *)
(* pointer into the update it merges, so a caller can hold a pointer to    *)
(* the object the store holds under an id (held).  A merge that accepts a  *)
(* new version of an id puts another object there.                         *)
(***************************************************************************)
\* Silences.Get(id): (pointer to the stored object or nil, error)
SilGet(st, id) ==
  IF id \notin DOMAIN st
  THEN [err |-> "not found", res |-> <<>>, ptr |-> {}]
  ELSE [err |-> "nil", res |-> <<st[id]>>, ptr |-> {id}]

\* Silences.All(), the range over the map visiting the ids in order ord:
\* the stored pointers, one after the other
SilAll(st, ord) ==
  [err |-> "nil", res |-> [i \in 1..Len(ord) |-> st[ord[i]]], ptr |-> DOMAIN st]

\* The orders in which a range over the map can visit its keys.
Orders(st) ==
  {ord \in [1..Cardinality(DOMAIN st) -> DOMAIN st] :
     \A i, j \in 1..Cardinality(DOMAIN st) : ord[i] = ord[j] => i = j}

\* Set with a silence the caller built: when Merge takes it, the store holds
\* the caller's object.
HdlSet(sil, fresh) ==
  /\ CallSilSetBody(sil, fresh)
  /\ held' = IF sst' # sst THEN held \cup {last'.id} ELSE held

\* Set with the pointer the caller holds for id: lines 147-150 write through
\* it into the stored object, Merge compares the object with itself and
\* keeps it, and the object is broadcast.
HdlSetHeld(id) ==
  /\ obj = "Silences"
  /\ send
  /\ id \in held
  /\ sst' = [sst EXCEPT ![id].UpdatedAt = now]
  /\ out' = <<[k \in {id} |-> sst'[id]]>>
  /\ last' = Returned("Silences.Set", "nil", NoData, id, TRUE)
  /\ UNCHANGED <<obj, send, nst, now, alg, clu, mk, held, thr>>

\* Del: when Merge takes the new version, the store holds &newSil.
HdlDel(id) ==
  /\ CallSilDelBody(id)
  /\ held' = IF sst' # sst THEN held \ {id} ELSE held

\* OnGossip: the versions mergeDelta takes are objects the decoder made.
HdlOnGossip(b) ==
  /\ CallSilOnGossipBody(b)
  /\ held' = held \ Changed(sst, sst')

HdlGet(id) ==
  /\ obj = "Silences"
  /\ LET r == SilGet(sst, id)
     IN  /\ last' = [Returned("Silences.Get", r.err, NoData, id, TRUE)
                        EXCEPT !.res = r.res]
         /\ held' = held \cup r.ptr
  /\ out' = <<>>
  /\ UNCHANGED <<obj, send, nst, sst, now, alg, clu, mk, thr>>

HdlAll(ord) ==
  /\ obj = "Silences"
  /\ LET r == SilAll(sst, ord)
     IN  /\ last' = [Returned("Silences.All", r.err, NoData, NilID, TRUE)
                        EXCEPT !.res = r.res]
         /\ held' = held \cup r.ptr
  /\ out' = <<>>
  /\ UNCHANGED <<obj, send, nst, sst, now, alg, clu, mk, thr>>

\* The caller assigns to the EndsAt field of a silence it holds a pointer to.
CallerWrites(id, e) ==
  /\ id \in held
  /\ sst[id].EndsAt # e
  /\ sst' = [sst EXCEPT ![id].EndsAt = e]
  /\ last' = Returned("caller write", "nil", NoData, id, TRUE)
  /\ out' = <<>>
  /\ UNCHANGED <<obj, send, nst, now, alg, clu, mk, held, thr>>

NextHandles ==
  \/ NewSilences
  \/ Register
  \/ Tick
  \/ \E sil \in SilenceArgs, fresh \in IDs : HdlSet(sil, fresh)
  \/ \E id \in IDs : HdlSetHeld(id)
  \/ \E id \in IDs : HdlDel(id)
  \/ \E b \in SPayloads : HdlOnGossip(b)
  \/ \E id \in IDs : HdlGet(id)
  \/ \E ord \in Orders(sst) : HdlAll(ord)
  \/ \E id \in IDs, e \in EndTimes : CallerWrites(id, e)

SpecHandles == Init /\ [][NextHandles]_vars

(***************************************************************************)
(* Goroutines on one NotificationInfos: one runs Set, one runs Get, each   *)
(* statement by statement.  notificationState.Merge takes the store's mtx  *)
(* exclusively and assigns the keys it accepts one after the other; a      *)
(* range over the update's map can take the keys in any order.             *)
(***************************************************************************)
\* The mutex when nobody holds it.
MtxFree == [writer |-> "none", readers |-> {}]

\* mtx.Lock() by goroutine g returns: nobody holds the mutex.
MtxLock(m, g) == [m EXCEPT !.writer = g]

MtxCanLock(m) == m.writer = "none" /\ m.readers = {}

MtxUnlock(m) == [m EXCEPT !.writer = "none"]

SetIdle ==
  [pc |-> "idle", ns |-> <<>>, update |-> Empty, todo |-> {}, pre |-> Empty,
   merges |-> 0, sent |-> <<>>, delivered |-> FALSE]

GetIdle == [pc |-> "idle", dest |-> "team-a", fps |-> <<>>, i |-> 0, res |-> <<>>]

InitNIThreads ==
  /\ obj = "NotificationInfos"
  /\ send = TRUE
  /\ nst = Empty
  /\ sst = Empty
  /\ now = 0
  /\ last = Returned("none", "nil", NoData, NilID, TRUE)
  /\ out = <<>>
  /\ mk = NoMarks
  /\ held = {}
  /\ alg = AlgOff
  /\ clu = CluOff
  /\ thr = [on |-> TRUE, mtx |-> MtxFree, set |-> SetIdle, get |-> GetIdle]

\* Set(ns...) is called: lines 68-76 build the update.
SetCall(ns) ==
  /\ thr.set.pc = "idle"
  /\ thr' = [thr EXCEPT !.set.pc = "Merge", !.set.ns = ns,
                         !.set.update = NIBatch(ns)]
  /\ UNCHANGED <<obj, send, nst, sst, now, last, out, alg, clu, mk, held>>

\* ni.st.Merge(update) takes the mutex.
SetMergeLock ==
  /\ thr.set.pc = "Merge"
  /\ MtxCanLock(thr.mtx)
  /\ thr' = [thr EXCEPT !.mtx = MtxLock(@, "set"), !.set.pc = "range",
                         !.set.todo = DOMAIN thr.set.update,
                         !.set.pre = nst,
                         !.set.merges = @ + 1]
  /\ UNCHANGED <<obj, send, nst, sst, now, last, out, alg, clu, mk, held>>

\* One turn of Merge's loop: key k of the update.
SetMergeKey(k) ==
  /\ thr.set.pc = "range"
  /\ k \in thr.set.todo
  /\ nst' = NMerge(nst, [j \in {k} |-> thr.set.update[j]])
  /\ thr' = [thr EXCEPT !.set.todo = @ \ {k}]
  /\ UNCHANGED <<obj, send, sst, now, last, out, alg, clu, mk, held>>

\* Merge is through the update and releases the mutex.
SetMergeUnlock ==
  /\ thr.set.pc = "range"
  /\ thr.set.todo = {}
  /\ thr' = [thr EXCEPT !.mtx = MtxUnlock(@), !.set.pc = "GossipBroadcast"]
  /\ UNCHANGED <<obj, send, nst, sst, now, last, out, alg, clu, mk, held>>

\* ni.send.GossipBroadcast(update), which the transport delivers or not,
\* and return nil.
SetBroadcast(delivered) ==
  /\ thr.set.pc = "GossipBroadcast"
  /\ thr' = [thr EXCEPT !.set.pc = "done",
                         !.set.sent = Append(@, thr.set.update),
                         !.set.delivered = delivered]
  /\ UNCHANGED <<obj, send, nst, sst, now, last, out, alg, clu, mk, held>>

\* Get(dest, fps...) is called.
GetCall(dest, fps) ==
  /\ thr.get.pc = "idle"
  /\ thr' = [thr EXCEPT !.get.pc = "range", !.get.dest = dest, !.get.fps = fps]
  /\ UNCHANGED <<obj, send, nst, sst, now, last, out, alg, clu, mk, held>>

\* One turn of Get's loop: it reads ni.st.set[k] and appends; it takes no
\* lock.
GetRead ==
  /\ thr.get.pc = "range"
  /\ thr.get.i < Len(thr.get.fps)
  /\ thr' = [thr EXCEPT !.get.i = @ + 1,
                         !.get.res = NIGet(nst, thr.get.dest,
                                           <<thr.get.fps[thr.get.i + 1]>>, @)]
  /\ UNCHANGED <<obj, send, nst, sst, now, last, out, alg, clu, mk, held>>

GetReturn ==
  /\ thr.get.pc = "range"
  /\ thr.get.i = Len(thr.get.fps)
  /\ thr' = [thr EXCEPT !.get.pc = "done"]
  /\ UNCHANGED <<obj, send, nst, sst, now, last, out, alg, clu, mk, held>>

NextNIThreads ==
  \/ \E ns \in NIBatches : SetCall(ns)
  \/ SetMergeLock
  \/ \E k \in NKeys : SetMergeKey(k)
  \/ SetMergeUnlock
  \/ \E delivered \in BOOLEAN : SetBroadcast(delivered)
  \/ \E dest \in GetDests, fps \in FpLists : GetCall(dest, fps)
  \/ GetRead
  \/ GetReturn

SpecNIThreads == InitNIThreads /\ [][NextNIThreads]_vars

(***************************************************************************)
(* Goroutines on one Silences: one runs Set, one runs Del, one runs the    *)
(* inbound callback OnGossip, interleaved at the points where the code     *)
(* holds no lock.  Merge and mergeDelta run under the store's mutex, so     *)
(* each is one step; Del reads the map under RLock in one step, and what   *)
(* it does between RUnlock and Merge (lines 168-188) touches no shared     *)
(* state but the clock.  The clock ticks between steps.                    *)
(***************************************************************************)
\* The last reading of the clock in these runs.
MaxClock == MaxTime + 1

\* The silences the goroutines write: one id, two different comments, an end
\* after the last clock reading.
RaceSilences(stamps) ==
  {Silence(1, "alertname=Foo", 0, MaxClock + 1, u, "u", c) :
     u \in stamps, c \in {"c", "d"}}

Goroutines == {"set", "del", "cb"}

\* A goroutine before its call: inv and ret are the clock readings at the
\* call and at the return, before the goroutines whose call had returned
\* when this one was made.
GoIdle ==
  [pc |-> "idle", inv |-> 0, ret |-> 0, before |-> {}, err |-> "nil",
   sil |-> Silence(NilID, "alertname=Foo", 0, 0, 0, "u", "c"), t |-> 0]

HadReturned == {h \in Goroutines : thr.g[h].pc = "done"}

InitSilThreads ==
  /\ obj = "Silences"
  /\ send = TRUE
  /\ nst = Empty
  /\ sst = Empty
  /\ now = 0
  /\ last = Returned("none", "nil", NoData, NilID, TRUE)
  /\ out = <<>>
  /\ mk = NoMarks
  /\ held = {}
  /\ alg = AlgOff
  /\ clu = CluOff
  /\ thr = [on |-> TRUE, g |-> [h \in Goroutines |-> GoIdle]]

ClockTick ==
  /\ now < MaxClock
  /\ now' = now + 1
  /\ UNCHANGED <<obj, send, nst, sst, last, out, alg, clu, mk, held, thr>>

\* Set(sil) is called with a silence that has an ID; line 150 stamps it.
GoSetCall(sil) ==
  /\ thr.g["set"].pc = "idle"
  /\ thr' = [thr EXCEPT !.g["set"] =
                [@ EXCEPT !.pc = "Merge", !.inv = now, !.sil = sil, !.t = now,
                          !.before = HadReturned]]
  /\ UNCHANGED <<obj, send, nst, sst, now, last, out, alg, clu, mk, held>>

\* s.st.Merge(update) of Set
GoSetMerge ==
  /\ thr.g["set"].pc = "Merge"
  /\ LET g == thr.g["set"]
     IN  sst' = SMerge(sst, [k \in {g.sil.ID} |-> [g.sil EXCEPT !.UpdatedAt = g.t]])
  /\ thr' = [thr EXCEPT !.g["set"].pc = "GossipBroadcast"]
  /\ UNCHANGED <<obj, send, nst, now, last, out, alg, clu, mk, held>>

\* s.send.GossipBroadcast(update) and the return of Set or Del
GoBroadcast(h) ==
  /\ thr.g[h].pc = "GossipBroadcast"
  /\ thr' = [thr EXCEPT !.g[h] = [@ EXCEPT !.pc = "done", !.ret = now]]
  /\ UNCHANGED <<obj, send, nst, sst, now, last, out, alg, clu, mk, held>>

\* Del(id): lines 165-170, the read of the map under RLock.
GoDelRead(id) ==
  /\ thr.g["del"].pc = "idle"
  /\ thr' = [thr EXCEPT !.g["del"] =
                IF id \in DOMAIN sst
                THEN [@ EXCEPT !.pc = "Now", !.inv = now, !.sil = sst[id],
                               !.before = HadReturned]
                ELSE [@ EXCEPT !.pc = "done", !.inv = now, !.ret = now,
                               !.err = "not found",
                               !.before = HadReturned]]
  /\ UNCHANGED <<obj, send, nst, sst, now, last, out, alg, clu, mk, held>>

\* Del: lines 171-188, the clock reading, the check and the new version.
GoDelNow ==
  /\ thr.g["del"].pc = "Now"
  /\ LET g      == thr.g["del"]
         newSil == [g.sil EXCEPT !.UpdatedAt = now, !.EndsAt = now]
     IN  thr' = [thr EXCEPT !.g["del"] =
                   IF g.sil.EndsAt < now
                   THEN [@ EXCEPT !.pc = "done", !.ret = now,
                                  !.err = "silence already ended"]
                   ELSE IF SilenceInit(newSil) # "nil"
                   THEN [@ EXCEPT !.pc = "done", !.ret = now,
                                  !.err = "silence init"]
                   ELSE [@ EXCEPT !.pc = "Merge", !.t = now, !.sil = newSil]]
  /\ UNCHANGED <<obj, send, nst, sst, now, last, out, alg, clu, mk, held>>

\* s.st.Merge(update) of Del
GoDelMerge ==
  /\ thr.g["del"].pc = "Merge"
  /\ LET g == thr.g["del"]
     IN  sst' = SMerge(sst, [k \in {g.sil.ID} |-> g.sil])
  /\ thr' = [thr EXCEPT !.g["del"].pc = "GossipBroadcast"]
  /\ UNCHANGED <<obj, send, nst, now, last, out, alg, clu, mk, held>>

\* OnGossip(b), b encoding one silence: decode, mergeDelta, return.
GoOnGossip(v) ==
  /\ thr.g["cb"].pc = "idle"
  /\ sst' = SilOnGossip(sst, Encode([k \in {v.ID} |-> v])).st
  /\ thr' = [thr EXCEPT !.g["cb"] =
                [@ EXCEPT !.pc = "done", !.inv = now, !.ret = now, !.sil = v,
                          !.before = HadReturned]]
  /\ UNCHANGED <<obj, send, nst, now, last, out, alg, clu, mk, held>>

NextSilThreads ==
  \/ ClockTick
  \/ \E sil \in RaceSilences({0}) : GoSetCall(sil)
  \/ GoSetMerge
  \/ \E h \in {"set", "del"} : GoBroadcast(h)
  \/ \E id \in {1} : GoDelRead(id)
  \/ GoDelNow
  \/ GoDelMerge
  \/ \E v \in RaceSilences(Times) : GoOnGossip(v)

SpecSilThreads == InitSilThreads /\ [][NextSilThreads]_vars

(***************************************************************************)
(* The sequential executions of the three calls: each call runs alone, at  *)
(* one clock reading between its call and its return; a call that had      *)
(* returned before another was made comes before it, and the clock does    *)
(* not run backwards.                                                      *)
(***************************************************************************)
\* The call of goroutine h run alone on st at clock reading c.
Alone(st, h, c) ==
  LET g == thr.g[h]
  IN  IF h = "set" THEN SilSet(st, g.sil, g.sil.ID, c).st
      ELSE IF h = "del" THEN SilDel(st, 1, c).st
      ELSE SilOnGossip(st, Encode([k \in {g.sil.ID} |-> g.sil])).st

SerialOrders ==
  {ord \in [1..3 -> Goroutines] :
     /\ \A i, j \in 1..3 : ord[i] = ord[j] => i = j
     /\ \A i, j \in 1..3 : i < j => ord[j] \notin thr.g[ord[i]].before}

SerialClocks(ord) ==
  {c \in [Goroutines -> 0..MaxClock] :
     /\ \A h \in Goroutines : thr.g[h].inv <= c[h] /\ c[h] <= thr.g[h].ret
     /\ \A i, j \in 1..3 : i < j => c[ord[i]] <= c[ord[j]]}

SerialResult(ord, c) ==
  Alone(Alone(Alone(Empty, ord[1], c[ord[1]]), ord[2], c[ord[2]]), ord[3], c[ord[3]])

(***************************************************************************)
(* Properties                                                              *)
(***************************************************************************)
\* C1: once every fragment broadcast for the writes made so far has been
\* delivered to every peer (nothing is in flight any more), all peers hold
\* the same keys with the same values.
C1_Converges ==
  clu.wire = {} => \A p \in Peers, q \in Peers : clu.st[p] = clu.st[q]

\* C2: merge is commutative: replica A (U, U, V) and replica B (V, U) end in
\* the same state, also when U and V carry different values for one key
\* with one timestamp.
C2_MergeCommutes == alg.pc = 5 => alg.A = alg.B

\* C3: merge is idempotent: merging the update just merged once more leaves
\* the store as it was, whichever of Merge, mergeDelta (OnGossip,
\* OnGossipBroadcast) and mergeComplete (OnGossipUnicast) does either merge.
C3_MergeIdempotent == [][(alg.pc = 1 /\ alg'.pc = 2) => alg'.A = alg.A]_vars

\* The second merge of U is done, and the first one had changed two keys.
C3_Witness ==
  /\ alg.pc = 2
  /\ Cardinality(Changed(alg.S, alg.A)) = 2

\* C4: last write wins.  Every key of a merged update ends up holding the
\* entry with the later timestamp, whichever of the two was there first,
\* and on equal timestamps the stored entry stays; two entries of one key
\* with different timestamps leave the later one in both replicas, which
\* merged them in opposite orders.
C4_LastWriteWins ==
  /\ alg.pc >= 1 =>
       \A k \in DOMAIN alg.upd :
         LET post == AlgPost(alg)
         IN  IF k \notin DOMAIN alg.pre THEN post[k] = alg.upd[k]
             ELSE LET old == Stamp(alg.kind, alg.pre[k])
                      new == Stamp(alg.kind, alg.upd[k])
                  IN  /\ old < new => post[k] = alg.upd[k]
                      /\ old > new => post[k] = alg.pre[k]
                      /\ old = new => post[k] = alg.pre[k]
  /\ alg.pc = 5 =>
       \A k \in (DOMAIN alg.U \cap DOMAIN alg.V) \ DOMAIN alg.S :
         LET tu == Stamp(alg.kind, alg.U[k])
             tv == Stamp(alg.kind, alg.V[k])
         IN  /\ tu < tv => (alg.A[k] = alg.V[k] /\ alg.B[k] = alg.V[k])
             /\ tv < tu => (alg.A[k] = alg.U[k] /\ alg.B[k] = alg.U[k])

\* Both replicas have merged two silences of one id with different
\* UpdatedAt, in opposite orders.
C4_Witness ==
  /\ alg.pc = 5
  /\ alg.kind = "Silences"
  /\ \E k \in (DOMAIN alg.U \cap DOMAIN alg.V) \ DOMAIN alg.S :
       alg.U[k].UpdatedAt # alg.V[k].UpdatedAt

\* C5: the delta mergeDelta returns holds exactly the keys whose stored
\* value changed (the key was absent or the incoming timestamp strictly
\* later), each with the accepted value, and merging the delta into the
\* state before yields the state that merging the update yields.
C5_DeltaCorrect ==
  (alg.pc >= 1 /\ ~alg.delta.nil) =>
    LET d    == alg.delta.set
        post == AlgPost(alg)
        Into(st, u) == IF alg.kind = "NotificationInfos"
                       THEN NMerge(st, u) ELSE SMerge(st, u)
    IN  /\ DOMAIN d = Changed(alg.pre, post)
        /\ DOMAIN d = {k \in DOMAIN alg.upd :
                         \/ k \notin DOMAIN alg.pre
                         \/ Stamp(alg.kind, alg.pre[k]) < Stamp(alg.kind, alg.upd[k])}
        /\ \A k \in DOMAIN d : d[k] = alg.upd[k] /\ post[k] = d[k]
        /\ Into(alg.pre, d) = post
        /\ Into(alg.pre, alg.upd) = post

\* mergeDelta accepted one key of a two-key update and refused the other.
C5_Witness ==
  /\ alg.pc >= 1
  /\ ~alg.delta.nil
  /\ Cardinality(DOMAIN alg.upd) = 2
  /\ Cardinality(DOMAIN alg.delta.set) = 1

\* C6: OnGossipBroadcast answers like OnGossip: a fragment that changes no
\* key yields nil, never a delta that is present and empty.
C6_BroadcastNeverEmptyDelta ==
  (/\ last.op \in {"NotificationInfos.OnGossipBroadcast",
                   "Silences.OnGossipBroadcast"}
   /\ last.err = "nil")
    => (last.ret.nil \/ DOMAIN last.ret.set # {})

\* C7: OnGossip of either store, given a decodable fragment, returns no
\* error and either the delta (the changed keys with their new values)
\* when a key changed, or nil when none did.
C7_OnGossipDeltaOrNil ==
  [][/\ (CallStep("NotificationInfos.OnGossip") /\ last'.valid) =>
          /\ last'.err = "nil"
          /\ last'.ret =
               IF Changed(nst, nst') = {} THEN NoData
               ELSE Data([k \in Changed(nst, nst') |-> nst'[k]])
     /\ (CallStep("Silences.OnGossip") /\ last'.valid) =>
          /\ last'.err = "nil"
          /\ last'.ret =
               IF Changed(sst, sst') = {} THEN NoData
               ELSE Data([k \in Changed(sst, sst') |-> sst'[k]])
    ]_vars

\* OnGossip returned nil without an error on a store that holds entries.
C7_Witness ==
  /\ last.op = "NotificationInfos.OnGossip"
  /\ last.valid
  /\ last.ret.nil
  /\ nst # Empty

\* C8: each of the three inbound callbacks of either store, given bytes
\* that do not decode, returns an error and no delta and leaves the store
\* as it was.
C8_DecodeFailure ==
  [][/\ ((\/ CallStep("NotificationInfos.OnGossip")
          \/ CallStep("NotificationInfos.OnGossipBroadcast")
          \/ CallStep("NotificationInfos.OnGossipUnicast")) /\ ~last'.valid) =>
          (last'.err # "nil" /\ last'.ret.nil /\ nst' = nst)
     /\ ((\/ CallStep("Silences.OnGossip")
          \/ CallStep("Silences.OnGossipBroadcast")
          \/ CallStep("Silences.OnGossipUnicast")) /\ ~last'.valid) =>
          (last'.err # "nil" /\ last'.ret.nil /\ sst' = sst)
    ]_vars

\* OnGossipUnicast was handed malformed bytes on a store that holds silences.
C8_Witness ==
  /\ last.op = "Silences.OnGossipUnicast"
  /\ ~last.valid
  /\ last.err = "decode"
  /\ sst # Empty

\* C9: Del of an id that is not stored fails with NotFound, Del of a
\* silence whose EndsAt is before now fails with "already ended", and
\* either way the store is unchanged and nothing is broadcast.
C9_DelErrors ==
  [][CallStep("Silences.Del") =>
       LET id == last'.id
       IN  /\ id \notin DOMAIN sst =>
                (last'.err = "not found" /\ sst' = sst /\ out' = <<>>)
           /\ (id \in DOMAIN sst /\ sst[id].EndsAt < now) =>
                (last'.err = "silence already ended" /\ sst' = sst /\ out' = <<>>)
    ]_vars

\* Del refused a stored silence that had ended.
C9_Witness ==
  /\ last.op = "Silences.Del"
  /\ last.err = "silence already ended"
  /\ last.id \in DOMAIN sst
  /\ sst[last.id].EndsAt < now
  /\ out = <<>>

\* C10: when Del of a stored silence whose EndsAt is after now returns
\* success, the store holds for that id the version Del read with EndsAt and
\* UpdatedAt set to now, and that version was broadcast once.
C10_DelEndsSilence ==
  [][(/\ CallStep("Silences.Del")
      /\ last'.id \in DOMAIN sst
      /\ sst[last'.id].EndsAt > now
      /\ last'.err = "nil") =>
       LET id == last'.id
       IN  /\ sst'[id] = [sst[id] EXCEPT !.EndsAt = now, !.UpdatedAt = now]
           /\ out' = <<[k \in {id} |-> sst'[id]]>>
    ]_vars

\* C11: Set gives a silence without an ID one that no stored silence has,
\* stamps UpdatedAt with the current time, and when it returns id the store
\* holds under id the silence passed in (with that ID and stamp); exactly
\* one broadcast, of that single-entry update, is issued.
C11_SetStoresSilence ==
  [][CallStep("Silences.Set") =>
       LET id == last'.id
       IN  /\ last'.err = "nil"
           /\ id # NilID
           /\ last'.anon => id \notin DOMAIN sst
           /\ Len(out') = 1
           /\ DOMAIN out'[1] = {id}
           /\ out'[1][id].ID = id
           /\ out'[1][id].UpdatedAt = now
           /\ id \in DOMAIN sst'
           /\ sst'[id] = out'[1][id]
    ]_vars

\* C12: Set of a silence whose content is invalid returns an error, leaves
\* the store as it was and broadcasts nothing.
C12_SetRejectsInvalid ==
  [][(CallStep("Silences.Set") /\ ~last'.valid) =>
       (last'.err # "nil" /\ sst' = sst /\ out' = <<>>)
    ]_vars

\* C14: Get(receiver, fp_1..fp_n) returns no error and a list of exactly n
\* elements; element i is the stored entry of (fp_i, receiver) with that
\* fingerprint, receiver, resolved flag and timestamp when the key is
\* stored, and the nil marker when it is not; for n = 0 and for repeated
\* fingerprints too.
C14_GetAligned ==
  last.op = "NotificationInfos.Get" =>
    LET dest == last.arg[1]
        fps  == last.arg[2]
        res  == last.res
    IN  /\ last.err = "nil"
        /\ Len(res) = Len(fps)
        /\ \A i \in 1..Len(fps) :
             LET k == NKey(fps[i], dest)
             IN  IF k \in DOMAIN nst
                 THEN res[i] = [nil |-> FALSE, Alert |-> fps[i], Receiver |-> dest,
                                Resolved |-> nst[k].Resolved,
                                Timestamp |-> nst[k].Timestamp]
                 ELSE res[i] = NilInfo

\* Get was asked for a fingerprint that is not stored and then for one that
\* is: the answer is the nil marker followed by the entry.
C14_Witness ==
  /\ last.op = "NotificationInfos.Get"
  /\ Len(last.arg[2]) = 2
  /\ Len(last.res) = 2
  /\ last.res[1] = NilInfo
  /\ last.res[2] # NilInfo
  /\ last.res[2].Resolved

\* C16: Mutes(L) returns true exactly when some stored silence matches L
\* and has an active time window at the time of the call; on true the
\* marker holds for L's fingerprint the id of one stored silence that
\* matches L and is active (any of them), on false it holds none.
C16_MutesMarks ==
  [][CallStep("Silences.Mutes") =>
       LET lset == last'.arg[1]
           fp   == LFingerprint(lset)
           M    == {id \in DOMAIN sst :
                      /\ Matches(sst[id].Matchers, lset)
                      /\ sst[id].StartsAt <= now
                      /\ now <= sst[id].EndsAt}
       IN  /\ last'.res = (M # {})
           /\ M # {} => \E id \in M : mk'[fp] = {id}
           /\ M = {} => mk'[fp] = {}
    ]_vars

\* Two stored silences mute the label set and Mutes recorded the second.
C16_Witness ==
  /\ last.op = "Silences.Mutes"
  /\ last.res = TRUE
  /\ Cardinality(Muting(sst, last.arg[1], now)) = 2
  /\ mk[LFingerprint(last.arg[1])] = {2}

C13_NoSharedHandle ==
  [][sst' # sst =>
       \/ CallStep("Silences.Set")
       \/ CallStep("Silences.Del")
       \/ CallStep("Silences.OnGossip")
    ]_vars

\* C15: Set(entries...) merges the whole batch into the store once and then
\* broadcasts once, an update that holds an entry for every (fingerprint,
\* receiver) pair of the batch; the merge is complete when the broadcast is
\* issued, and the broadcast, delivered or not, leaves the store alone.
C15_SetMergesThenBroadcasts ==
  [][(thr.on /\ thr'.on) =>
       LET t    == thr.set
           keys == {NKey(t.ns[i].Alert, t.ns[i].Receiver) : i \in 1..Len(t.ns)}
       IN  /\ (t.pc = "range" /\ thr'.set.pc = "GossipBroadcast") =>
                /\ t.merges = 1
                /\ nst = NMerge(t.pre, t.update)
           /\ (t.pc = "GossipBroadcast" /\ thr'.set.pc = "done") =>
                /\ t.merges = 1
                /\ thr.mtx.writer # "set"
                /\ \A k \in keys :
                     k \in DOMAIN nst /\ nst[k].Timestamp >= t.update[k].Timestamp
                /\ nst' = nst
                /\ thr'.set.merges = 1
                /\ thr'.set.sent = <<t.update>>
                /\ DOMAIN t.update = keys
                /\ \A i \in 1..Len(t.ns) :
                     \E j \in i..Len(t.ns) :
                       /\ NKey(t.ns[j].Alert, t.ns[j].Receiver) =
                            NKey(t.ns[i].Alert, t.ns[i].Receiver)
                       /\ t.update[NKey(t.ns[i].Alert, t.ns[i].Receiver)] =
                            [Resolved |-> t.ns[j].Resolved,
                             Timestamp |-> t.ns[j].Timestamp]
    ]_vars

\* Set has returned after a batch of two pairs: both are stored, one update
\* holding both was broadcast, and the transport did not deliver it.
C15_Witness ==
  /\ thr.on
  /\ thr.set.pc = "done"
  /\ Cardinality(DOMAIN thr.set.update) = 2
  /\ ~thr.set.delivered
  /\ thr.set.sent = <<thr.set.update>>
  /\ nst = thr.set.update

\* C18: every read of a store's mapping by a public read operation is done
\* while the reader holds the store's lock shared, so no read falls into a
\* writer's exclusive section and no reader sees a batch partly applied:
\* what Get returns is what it would return on the store before the batch
\* or on the store after it.
C18_ReadsUnderLock ==
  [][(thr.on /\ thr'.on) =>
       /\ thr'.get.i > thr.get.i =>
            ("get" \in thr.mtx.readers /\ thr.mtx.writer = "none")
       /\ thr'.get.pc = "done" =>
            \/ thr'.get.res = NIGet(Empty, thr.get.dest, thr.get.fps, <<>>)
            \/ thr'.get.res = NIGet(NMerge(Empty, thr.set.update),
                                    thr.get.dest, thr.get.fps, <<>>)
    ]_vars

\* C17: when goroutines have run Set, Del and an inbound callback on one
\* Silences store concurrently, the store is in the state some sequential
\* execution of the same calls leaves, each call atomic and in an order
\* consistent with real time; a Del that succeeds beside a Set of the same
\* id leaves what "Set then Del" or "Del then Set" would.
C17_Serializable ==
  (thr.on /\ \A h \in Goroutines : thr.g[h].pc = "done") =>
    \E ord \in SerialOrders : \E c \in SerialClocks(ord) :
      sst = SerialResult(ord, c)

====
